---------------------------- MODULE Spec2Model ----------------------------
(***************************************************************************)
(* csv2bufr.py: conversion of automatic-weather-station observation tables *)
(* to BUFR messages.  The model follows src/csv2bufr.py function by        *)
(* function.                                                               *)
(*                                                                         *)
(* Numbers.  Every numeric value is kept in fixed point, in hundredths:    *)
(* Whole(4) is 4, 27315 is 273.15, -99900 is the sentinel -999.  A value   *)
(* that Python code handles is a record [ty, v]: v the number, ty its      *)
(* Python type, because setBUFRvalue decides with isinstance whether the   *)
(* sentinel test applies at all.                                           *)
(*                                                                         *)
(* The encoding library (eccodes) is outside the repository.  Its handle   *)
(* is the ordered list of the assignments it accepted; whether it accepts  *)
(* an assignment is the environment's choice, fixed per key in lib.        *)
(*                                                                         *)
(* Specifications.  Spec: one call of getBUFR by any caller.  SpecMain:    *)
(* the script, which calls getBUFR.  SpecTwin: two calls of getBUFR that   *)
(* differ in the lookup table only, run statement by statement.            *)
(***************************************************************************)
EXTENDS Integers, Sequences, FiniteSets

VARIABLES
    \* ---- inputs of getBUFR and the environment (never modified)
    df1,        \* observation table: sequence of rows (column -> number)
    dtype,      \* dtype of the row Series that df1.iterrows() yields
    df2,        \* lookup table: sequence of [CSV_column, standard_name, type]
    args,       \* getBUFR's ed, master, vers, template, key
    outBUFR,    \* getBUFR's output path
    lib,        \* encoding library: the keys / calls it rejects
    \* ---- the activation of getBUFR
    pc,         \* position in getBUFR
    i1,         \* number of rows iterrows() has yielded
    r1,         \* current row, as typed values
    ibufr,      \* current message handle
    timestamp,  \* datetime built from the row
    live,       \* handles created and not yet released (library state)
    fout,       \* output file object: [path, data, closed]
    log,        \* lines printed
    exc,        \* exception that left getBUFR, or "none"
    \* ---- the main script
    mpc,        \* position in the script
    txtFiles,   \* result of glob.glob
    fidx,       \* number of names the for loop has taken
    fname,      \* loop variable
    bufrname,   \* generated output name
    outDir,     \* files present in ./BUFR_out/
    \* ---- a second activation of getBUFR on the same inputs but lookup df2b
    twinOn, df2b, twin

inputs == <<df1, dtype, df2, args, outBUFR, lib, twinOn, df2b>>
frame  == <<pc, i1, r1, ibufr, timestamp, live, fout, log, exc>>
script == <<mpc, txtFiles, fidx, fname, bufrname>>
vars   == <<inputs, frame, script, outDir, twin>>

---------------------------------------------------------------------------
\* Bounds of the model.
MaxRows == 2
MaxFiles == 2

---------------------------------------------------------------------------
\* Fixed point and Python values.

Whole(n) == n * 100

Num(ty, v) == [ty |-> ty, v |-> v]

\* nullvalue=-999, the default of setBUFRvalue, getTempK, getPressPa and
\* setAWSvariables.
nullvalue == -999

\* A literal of the source: a Python int.
Lit(n) == Num("int", Whole(n))

\* isinstance(value, int) or isinstance(value, float): numpy.float64 is a
\* subclass of float, numpy.int64 is not a subclass of int.
IsIntOrFloat(value) == value.ty \in {"int", "float", "numpy.float64"}

\* x + <float literal>, x - <float literal> (operand in hundredths).
AddFloat(x, hundredths) ==
    Num(IF x.ty \in {"numpy.int64", "numpy.float64"} THEN "numpy.float64" ELSE "float",
        x.v + hundredths)

\* x * <int literal>.
MulInt(x, n) == Num(x.ty, x.v * n)

\* x + y for two row values.
AddVal(x, y) ==
    Num(IF "numpy.float64" \in {x.ty, y.ty} THEN "numpy.float64"
        ELSE IF "float" \in {x.ty, y.ty} THEN "float" ELSE x.ty,
        x.v + y.v)

\* row[col]: an element of the Series that iterrows() yields.  A Series has
\* one dtype; its elements have the matching numpy type.
At(row, col) == Num(row.ty, row.v[col])

\* int(x): truncation toward zero.
PyInt(x) == IF x.v >= 0 THEN x.v \div 100 ELSE -((-x.v) \div 100)

---------------------------------------------------------------------------
\* The encoding library.

\* codes_bufr_new_from_samples('BUFR4'): a fresh handle.
NewHandle(id) == [id |-> id, keys |-> <<>>]

\* A context is the handle being built, the lines printed, and whether a
\* CodesInternalError is propagating (the calls after it are not executed).
Ctx(h, out) == [h |-> h, log |-> out, err |-> FALSE]

Rejects(key) == key \in lib

\* codes_set(ibufr, key, value), called directly.
CodesSet(c, key, value) ==
    IF c.err THEN c
    ELSE IF Rejects(key) THEN [c EXCEPT !.err = TRUE]
    ELSE [c EXCEPT !.h.keys = Append(@, <<key, value.v>>)]

IsSet(h, key) == \E n \in 1..Len(h.keys) : h.keys[n][1] = key

\* The value a handle holds for a key: that of the last assignment.
Val(h, key) ==
    LET S == {n \in 1..Len(h.keys) : h.keys[n][1] = key}
        last == CHOOSE n \in S : \A m \in S : m <= n
    IN  h.keys[last][2]

KeysOf(h) == {h.keys[n][1] : n \in 1..Len(h.keys)}

---------------------------------------------------------------------------
\* The functions of csv2bufr.py.

\* setBUFRvalue(ibufr, b_name, value, nullvalue=-999)
SetBUFRvalue(c, b_name, value, nullval) ==
    LET nullFlag == IsIntOrFloat(value) /\ value.v = Whole(nullval)
    IN  IF c.err \/ nullFlag THEN c
        ELSE IF Rejects(b_name)
             THEN [c EXCEPT !.log = Append(@, <<"field", b_name>>)]
             ELSE [c EXCEPT !.h.keys = Append(@, <<b_name, value.v>>)]

\* getTempK(row, nullvalue=-999)
getTempK(row, nullval) ==
    IF At(row, "AirTemperature(C)").v = Whole(nullval)
    THEN Lit(nullval)
    ELSE AddFloat(At(row, "AirTemperature(C)"), 27315)

\* getPressPa(row, nullvalue=-999)
getPressPa(row, nullval) ==
    IF At(row, "AirPressure(hPa)").v = Whole(nullval)
    THEN Lit(nullval)
    ELSE MulInt(At(row, "AirPressure(hPa)"), 100)

\* The header keys setTemplate sets before the template, in order.
HeaderAssignments(ts, ed, master, vers) ==
    << <<"edition", ed>>,
       <<"masterTableNumber", master>>,
       <<"masterTablesVersionNumber", vers>>,
       <<"localTablesVersionNumber", 0>>,
       <<"bufrHeaderCentre", 98>>,
       <<"bufrHeaderSubCentre", 0>>,
       <<"updateSequenceNumber", 0>>,
       <<"dataCategory", 0>>,
       <<"internationalDataSubCategory", 7>>,
       <<"dataSubCategory", 7>>,
       <<"observedData", 1>>,
       <<"compressedData", 0>>,
       <<"typicalYear", ts.year>>,
       <<"typicalMonth", ts.month>>,
       <<"typicalDay", ts.day>>,
       <<"typicalHour", ts.hour>>,
       <<"typicalMinute", ts.minute>>,
       <<"typicalSecond", ts.second>> >>

\* Consecutive direct codes_set calls with int literals.
RECURSIVE SetAll(_, _)
SetAll(c, kvs) ==
    IF kvs = <<>> THEN c
    ELSE SetAll(CodesSet(c, Head(kvs)[1], Lit(Head(kvs)[2])), Tail(kvs))

\* setTemplate(ibufr, timestamp, ed=4, master=0, vers=13, template=307080,
\*             key='unexpandedDescriptors')
SetTemplate(c, ts, ed, master, vers, template, key) ==
    CodesSet(SetAll(c, HeaderAssignments(ts, ed, master, vers)), key, Lit(template))

\* setStation(ibufr, stationNumber, blockNumber): the arguments are not used.
SetStation(c, stationNumber, blockNumber) ==
    SetAll(c, << <<"stationNumber", 1>>, <<"blockNumber", 1>>,
                 <<"stationType", 0>>,
                 <<"instrumentationForWindMeasurement", 6>> >>)

\* The setBUFRvalue calls of setAWSvariables, in order: key and value.
BaselineFields(row, nullValue) ==
    << <<"year", At(row, "Year")>>,
       <<"month", At(row, "MonthOfYear")>>,
       <<"day", At(row, "DayOfMonth")>>,
       <<"relativeHumidity", At(row, "RelativeHumidity(%)")>>,
       <<"windSpeed", At(row, "WindSpeed(m/s)")>>,
       <<"windDirection", At(row, "WindDirection(d)")>>,
       <<"airTemperature", getTempK(row, nullValue)>>,
       <<"pressure", getPressPa(row, nullValue)>>,
       <<"cloudCoverTotal", At(row, "CloudCover")>>,
       <<"#1#shortWaveRadiationIntegratedOverPeriodSpecified",
         At(row, "ShortwaveRadiationDown_Cor(W/m2)")>>,
       <<"#2#shortWaveRadiationIntegratedOverPeriodSpecified",
         At(row, "ShortwaveRadiationUp_Cor(W/m2)")>>,
       <<"#1#longWaveRadiationIntegratedOverPeriodSpecified",
         At(row, "LongwaveRadiationDown(W/m2)")>>,
       <<"#2#longWaveRadiationIntegratedOverPeriodSpecified",
         At(row, "LongwaveRadiationUp(W/m2)")>>,
       <<"latitude", At(row, "LatitudeGPS(degN)")>>,
       <<"longitude", At(row, "LongitudeGPS(degW)")>>,
       <<"heightOfStationGroundAboveMeanSeaLevel", At(row, "ElevationGPS(m)")>>,
       <<"heightOfSensorAboveLocalGroundOrDeckOfMarinePlatform",
         At(row, "HeightSensorBoom(m)")>> >>

\* The setBUFRvalue calls, each with the default nullvalue.
RECURSIVE SetFields(_, _)
SetFields(c, kvs) ==
    IF kvs = <<>> THEN c
    ELSE SetFields(SetBUFRvalue(c, Head(kvs)[1], Head(kvs)[2], nullvalue), Tail(kvs))

\* if cond: codes_set(ibufr, key, value)
SetIf(c, cond, key, value) == IF cond THEN CodesSet(c, key, value) ELSE c

\* The direct codes_set calls of setAWSvariables (monitoring period, time
\* significance, measurement heights).
SetDerived(c, row, nullValue) ==
    LET wind == At(row, "WindSpeed(m/s)").v # Whole(nullValue)
        swd  == At(row, "ShortwaveRadiationDown_Cor(W/m2)").v # Whole(nullValue)
        lwd  == At(row, "LongwaveRadiationDown(W/m2)").v # Whole(nullValue)
        boom == At(row, "HeightSensorBoom(m)").v # Whole(nullValue)
        elev == At(row, "ElevationGPS(m)").v # Whole(nullValue)
        c1 == SetIf(c,  wind, "#11#timePeriod", Lit(-10))
        c2 == SetIf(c1, swd,  "#14#timePeriod", Lit(-10))
        c3 == SetIf(c2, lwd,  "#15#timePeriod", Lit(-10))
        c4 == CodesSet(c3, "#1#timeSignificance", Lit(2))
        c5 == SetIf(c4, wind, "#2#timeSignificance", Lit(2))
        c6 == SetIf(c5, boom,
                    "#2#heightOfSensorAboveLocalGroundOrDeckOfMarinePlatform",
                    AddFloat(At(row, "HeightSensorBoom(m)"), -10))
        c7 == SetIf(c6, boom,
                    "#8#heightOfSensorAboveLocalGroundOrDeckOfMarinePlatform",
                    AddFloat(At(row, "HeightSensorBoom(m)"), 40))
    IN  SetIf(c7, boom /\ elev, "heightOfBarometerAboveMeanSeaLevel",
              AddVal(At(row, "ElevationGPS(m)"), At(row, "HeightSensorBoom(m)")))

\* setAWSvariables(ibufr, row, nullValue=-999)
SetAWSvariables(c, row, nullValue) ==
    SetDerived(SetFields(c, BaselineFields(row, nullValue)), row, nullValue)

---------------------------------------------------------------------------
\* getBUFR, one step at a time.  A frame f is one activation of getBUFR:
\* [pc, i1, r1, ibufr, timestamp, live, fout, log, exc].

\* Defaults of getBUFR and of setTemplate.
DefaultEd == 4
DefaultMaster == 0
DefaultVers == 13
DefaultTemplate == 307080
DefaultKey == "unexpandedDescriptors"

Columns ==
    {"Year", "MonthOfYear", "DayOfMonth", "HourOfDay(UTC)",
     "RelativeHumidity(%)", "WindSpeed(m/s)", "WindDirection(d)",
     "AirTemperature(C)", "AirPressure(hPa)", "CloudCover",
     "ShortwaveRadiationDown_Cor(W/m2)", "ShortwaveRadiationUp_Cor(W/m2)",
     "LongwaveRadiationDown(W/m2)", "LongwaveRadiationUp(W/m2)",
     "LatitudeGPS(degN)", "LongitudeGPS(degW)", "ElevationGPS(m)",
     "HeightSensorBoom(m)"}

\* The values of a row that iterrows() yields: a Series of the table's one
\* dtype, so numpy.float64 values, or numpy.int64 values when every column
\* of the table holds integers only.
TypedRow(row, dt) ==
    [ty |-> IF dt = "int64" THEN "numpy.int64" ELSE "numpy.float64", v |-> row]

NoRow == [ty |-> "none", v |-> <<>>]
NoTime == [year |-> 0, month |-> 0, day |-> 0, hour |-> 0, minute |-> 0, second |-> 0]
NoFile == [path |-> <<>>, data |-> <<>>, closed |-> TRUE]

\* The frame before getBUFR's first statement.
Entry ==
    [pc |-> "open", i1 |-> 0, r1 |-> NoRow, ibufr |-> NewHandle(0),
     timestamp |-> NoTime, live |-> {}, fout |-> NoFile, log |-> <<>>,
     exc |-> "none"]

DaysInMonth(y, m) ==
    IF m = 2
    THEN (IF (y % 4 = 0 /\ y % 100 # 0) \/ y % 400 = 0 THEN 29 ELSE 28)
    ELSE IF m \in {4, 6, 9, 11} THEN 30 ELSE 31

\* datetime(year, month, day, hour, 0, 0) raises ValueError unless this holds.
DatetimeOK(y, m, d, h) ==
    /\ y \in 1..9999
    /\ m \in 1..12
    /\ d \in 1..DaysInMonth(y, m)
    /\ h \in 0..23

\* fout = open(outBUFR, 'wb')
OpenStep(f, path) ==
    [f EXCEPT !.fout = [path |-> path, data |-> <<>>, closed |-> FALSE],
              !.pc = "iterrows"]

\* for i1, r1 in df1.iterrows():
IterStep(f, table, dt) ==
    IF f.i1 < Len(table)
    THEN [f EXCEPT !.i1 = @ + 1, !.r1 = TypedRow(table[f.i1 + 1], dt), !.pc = "new"]
    ELSE [f EXCEPT !.pc = "close"]

\* ibufr = codes_bufr_new_from_samples('BUFR4'); the handle created for the
\* n-th row is handle n.
NewStep(f) ==
    [f EXCEPT !.ibufr = NewHandle(f.i1), !.live = @ \cup {f.i1}, !.pc = "timestamp"]

\* timestamp = datetime(int(r1['Year']), int(r1['MonthOfYear']),
\*                      int(r1['DayOfMonth']), int(r1['HourOfDay(UTC)']), 0, 0)
\* ValueError is not a CodesInternalError: it leaves getBUFR.
TimestampStep(f) ==
    LET y == PyInt(At(f.r1, "Year"))
        m == PyInt(At(f.r1, "MonthOfYear"))
        d == PyInt(At(f.r1, "DayOfMonth"))
        h == PyInt(At(f.r1, "HourOfDay(UTC)"))
    IN  IF DatetimeOK(y, m, d, h)
        THEN [f EXCEPT !.timestamp = [year |-> y, month |-> m, day |-> d,
                                      hour |-> h, minute |-> 0, second |-> 0],
                       !.pc = "setTemplate"]
        ELSE [f EXCEPT !.exc = "ValueError", !.pc = "raised"]

\* The statement's effect on the frame: on CodesInternalError control goes
\* to the except clause.
After(f, c, next) ==
    [f EXCEPT !.ibufr = c.h, !.log = c.log, !.pc = IF c.err THEN "except" ELSE next]

\* setTemplate(ibufr, timestamp)
TemplateStep(f) ==
    After(f, SetTemplate(Ctx(f.ibufr, f.log), f.timestamp, DefaultEd, DefaultMaster,
                         DefaultVers, DefaultTemplate, DefaultKey),
          "setStation")

\* stationNumber=1; blockNumber=1; setStation(ibufr, stationNumber, blockNumber)
StationStep(f) == After(f, SetStation(Ctx(f.ibufr, f.log), 1, 1), "setAWSvariables")

\* setAWSvariables(ibufr, r1)
AWSStep(f) ==
    After(f, SetAWSvariables(Ctx(f.ibufr, f.log), f.r1, nullvalue), "pack")

\* Faulty variant of PackStep: a failed pack is not noticed and the message
\* goes on to be written.
PackStep_ignoreError(f) ==
    LET c == CodesSet(Ctx(f.ibufr, f.log), "pack", Lit(1))
    IN  [f EXCEPT !.ibufr = c.h, !.log = c.log, !.pc = "write"]

\* codes_set(ibufr, 'pack', 1)
PackStep(f) == After(f, CodesSet(Ctx(f.ibufr, f.log), "pack", Lit(1)), "write")

\* Faulty variant of WriteStep: a write that fails has already put the
\* message in the file.
WriteStep_partial(f) ==
    [f EXCEPT !.fout.data = Append(@, f.ibufr),
              !.pc = IF Rejects("codes_write") THEN "except" ELSE "release"]

\* codes_write(ibufr, fout)
WriteStep(f) ==
    IF Rejects("codes_write")
    THEN [f EXCEPT !.pc = "except"]
    ELSE [f EXCEPT !.fout.data = Append(@, f.ibufr), !.pc = "release"]

\* except CodesInternalError as ec: print(ec)
ExceptStep(f) ==
    [f EXCEPT !.log = Append(@, <<"message", "CodesInternalError">>), !.pc = "release"]

\* codes_release(ibufr)
ReleaseStep(f) == [f EXCEPT !.live = @ \ {f.ibufr.id}, !.pc = "iterrows"]

\* fout.close()
CloseStep(f) == [f EXCEPT !.fout.closed = TRUE, !.pc = "done"]

\* The lookup entries that name a column of the row and a standard name, as
\* key and value.
RECURSIVE LookupFields(_, _)
LookupFields(lookup, row) ==
    IF lookup = <<>> THEN <<>>
    ELSE LET e == Head(lookup)
             rest == LookupFields(Tail(lookup), row)
         IN  IF e.standard_name # "" /\ e.CSV_column \in Columns
             THEN <<<<e.standard_name, At(row, e.CSV_column)>>>> \o rest
             ELSE rest

\* Faulty variant of GetBUFRstep: the measurements are set by iterating the
\* lookup table instead of the hard-coded field list.
GetBUFRstep_lookupDriven(f, table, dt, lookup, path, a) ==
    CASE f.pc = "open"            -> OpenStep(f, path)
      [] f.pc = "iterrows"        -> IterStep(f, table, dt)
      [] f.pc = "new"             -> NewStep(f)
      [] f.pc = "timestamp"       -> TimestampStep(f)
      [] f.pc = "setTemplate"     -> TemplateStep(f)
      [] f.pc = "setStation"      -> StationStep(f)
      [] f.pc = "setAWSvariables" ->
            After(f, SetFields(Ctx(f.ibufr, f.log), LookupFields(lookup, f.r1)), "pack")
      [] f.pc = "pack"            -> PackStep(f)
      [] f.pc = "write"           -> WriteStep(f)
      [] f.pc = "except"          -> ExceptStep(f)
      [] f.pc = "release"         -> ReleaseStep(f)
      [] f.pc = "close"           -> CloseStep(f)
      [] OTHER                    -> f

\* getBUFR(df1, df2, outBUFR, ed, master, vers, template, key): the next
\* statement of the activation f.
GetBUFRstep(f, table, dt, lookup, path, a) ==
    CASE f.pc = "open"            -> OpenStep(f, path)
      [] f.pc = "iterrows"        -> IterStep(f, table, dt)
      [] f.pc = "new"             -> NewStep(f)
      [] f.pc = "timestamp"       -> TimestampStep(f)
      [] f.pc = "setTemplate"     -> TemplateStep(f)
      [] f.pc = "setStation"      -> StationStep(f)
      [] f.pc = "setAWSvariables" -> AWSStep(f)
      [] f.pc = "pack"            -> PackStep(f)
      [] f.pc = "write"           -> WriteStep(f)
      [] f.pc = "except"          -> ExceptStep(f)
      [] f.pc = "release"         -> ReleaseStep(f)
      [] f.pc = "close"           -> CloseStep(f)
      [] OTHER                    -> f

---------------------------------------------------------------------------
\* The main script's string handling.  A string is a sequence of characters.

\* s.split('/')[-1]
AfterLastSlash(s) ==
    LET S == {n \in 1..Len(s) : s[n] = "/"}
    IN  IF S = {} THEN s
        ELSE SubSeq(s, (CHOOSE n \in S : \A m \in S : m <= n) + 1, Len(s))

\* s.split('.txt')[0]
BeforeDotTxt(s) ==
    LET pat == <<".", "t", "x", "t">>
        S == {n \in 1..Len(s) - 3 : SubSeq(s, n, n + 3) = pat}
    IN  IF S = {} THEN s
        ELSE SubSeq(s, 1, (CHOOSE n \in S : \A m \in S : n <= m) - 1)

\* s[:-n], n > 0
DropLast(s, n) == SubSeq(s, 1, Len(s) - n)

\* fname.split('/')[-1].split('.txt')[0][:-4][:-5]+'.bufr'
BufrName(name) ==
    DropLast(DropLast(BeforeDotTxt(AfterLastSlash(name)), 4), 5)
        \o <<".", "b", "u", "f", "r">>

\* outFiles = './BUFR_out/'
outFiles == <<".", "/", "B", "U", "F", "R", "_", "o", "u", "t", "/">>

\* txtFiles[0:1]
FirstSlice(files) == SubSeq(files, 1, IF Len(files) < 1 THEN Len(files) ELSE 1)

---------------------------------------------------------------------------
\* Inputs.

\* An observation with every measurement present (hundredths).
BaseRow ==
    [c \in Columns |->
        CASE c = "Year" -> 202100
          [] c = "MonthOfYear" -> 900
          [] c = "DayOfMonth" -> 900
          [] c = "HourOfDay(UTC)" -> 1300
          [] c = "RelativeHumidity(%)" -> 8000
          [] c = "WindSpeed(m/s)" -> 500
          [] c = "WindDirection(d)" -> 18000
          [] c = "AirTemperature(C)" -> -1200
          [] c = "AirPressure(hPa)" -> 85000
          [] c = "CloudCover" -> 5000
          [] c = "ShortwaveRadiationDown_Cor(W/m2)" -> 10000
          [] c = "ShortwaveRadiationUp_Cor(W/m2)" -> 6000
          [] c = "LongwaveRadiationDown(W/m2)" -> 25000
          [] c = "LongwaveRadiationUp(W/m2)" -> 30000
          [] c = "LatitudeGPS(degN)" -> 6700
          [] c = "LongitudeGPS(degW)" -> 4900
          [] c = "ElevationGPS(m)" -> 184000
          [] OTHER -> 300]

\* BaseRow with the columns of S holding the sentinel.
WithNulls(S) == [c \in Columns |-> IF c \in S THEN Whole(nullvalue) ELSE BaseRow[c]]

\* The observation rows the tables are drawn from: complete, with sentinels
\* in some columns, with the pressure -9.99 hPa (-9.99*100 is -999.0, in
\* binary floating point as in fixed point), with month 13.
Rows ==
    { WithNulls({}),
      WithNulls({"WindSpeed(m/s)"}),
      WithNulls({"AirTemperature(C)", "AirPressure(hPa)", "HeightSensorBoom(m)"}),
      WithNulls({"ElevationGPS(m)", "ShortwaveRadiationDown_Cor(W/m2)",
                 "LongwaveRadiationDown(W/m2)"}),
      [BaseRow EXCEPT !["AirPressure(hPa)"] = -999],
      [BaseRow EXCEPT !["MonthOfYear"] = 1300] }

RECURSIVE SeqsUpTo(_, _)
SeqsUpTo(S, n) ==
    IF n = 0 THEN {<<>>}
    ELSE LET shorter == SeqsUpTo(S, n - 1)
         IN  shorter \cup {Append(t, x) : t \in shorter, x \in S}

Tables == SeqsUpTo(Rows, MaxRows)

\* A table whose every value is an integer is read as int64 columns.
AllIntegers(table) ==
    \A n \in 1..Len(table) : \A c \in Columns : table[n][c] % 100 = 0

DtypeOf(table) == IF AllIntegers(table) THEN "int64" ELSE "float64"

\* What the encoding library rejects: nothing, the value of one key set
\* through setBUFRvalue, one key set directly, a header key, a station key,
\* the pack, the write.
Libs ==
    { {}, {"windSpeed"}, {"#11#timePeriod"}, {"edition"}, {"blockNumber"},
      {"pack"}, {"codes_write"}, {"latitude", "#2#timeSignificance"} }

Defaults ==
    [ed |-> DefaultEd, master |-> DefaultMaster, vers |-> DefaultVers,
     template |-> DefaultTemplate, key |-> DefaultKey]

\* The arguments a caller of getBUFR passes.
ArgChoices ==
    { Defaults,
      [ed |-> 3, master |-> 1, vers |-> 14, template |-> 307091,
       key |-> "unexpandedDescriptors"] }

\* Lookup tables: empty; an entry with a standard name; an entry for a column
\* that setAWSvariables does not encode and an entry without a standard name.
LookupEntry(col, std, typ) == [CSV_column |-> col, standard_name |-> std, type |-> typ]

Lookups ==
    { <<>>,
      <<LookupEntry("WindSpeed(m/s)", "windSpeed", "float")>>,
      <<LookupEntry("Albedo_theta<70d", "albedo", "float"),
        LookupEntry("AirTemperature(C)", "", "")>> }

InPath == <<"A", "W", "S", "_", "d", "a", "t", "a", "/">>
HourV03 == <<"_", "h", "o", "u", "r", "_", "v", "0", "3", ".", "t", "x", "t">>
HourV04 == <<"_", "h", "o", "u", "r", "_", "v", "0", "4", ".", "t", "x", "t">>

\* Names that match 'AWS_data/*hour*'.
FileNames ==
    { InPath \o <<"K", "A", "N">> \o HourV03,
      InPath \o <<"K", "A", "N">> \o HourV04,
      InPath \o <<"Q", "A", "S">> \o HourV03,
      InPath \o <<"h", "o", "u", "r", ".", "t", "x", "t">> }

Distinct(q) == \A m, n \in 1..Len(q) : m # n => q[m] # q[n]

\* glob.glob returns each matching name once, in arbitrary order.
Globs == {q \in SeqsUpTo(FileNames, MaxFiles) : Distinct(q)}

---------------------------------------------------------------------------
\* State machine.

Frame ==
    [pc |-> pc, i1 |-> i1, r1 |-> r1, ibufr |-> ibufr, timestamp |-> timestamp,
     live |-> live, fout |-> fout, log |-> log, exc |-> exc]

Become(f) ==
    /\ pc' = f.pc
    /\ i1' = f.i1
    /\ r1' = f.r1
    /\ ibufr' = f.ibufr
    /\ timestamp' = f.timestamp
    /\ live' = f.live
    /\ fout' = f.fout
    /\ log' = f.log
    /\ exc' = f.exc

\* No second activation.
NoTwin == [pc |-> "none"]

\* No activation of getBUFR.
Idle == [Entry EXCEPT !.pc = "idle"]

ApiPath == <<"o", "u", "t", ".", "b", "u", "f", "r">>

\* A caller has just called getBUFR(df1, df2, outBUFR, ed, master, vers,
\* template, key).
Init ==
    /\ df1 \in Tables
    /\ dtype \in {"float64", DtypeOf(df1)}
    /\ df2 = <<LookupEntry("WindSpeed(m/s)", "windSpeed", "float")>>
    /\ args \in ArgChoices
    /\ outBUFR = ApiPath
    /\ lib \in Libs
    /\ pc = "open" /\ i1 = 0 /\ r1 = NoRow /\ ibufr = NewHandle(0)
    /\ timestamp = NoTime /\ live = {} /\ fout = NoFile /\ log = <<>>
    /\ exc = "none"
    /\ mpc = "caller" /\ txtFiles = <<>> /\ fidx = 0 /\ fname = <<>>
    /\ bufrname = <<>> /\ outDir = {}
    /\ twinOn = FALSE /\ df2b = df2 /\ twin = NoTwin

\* One statement of getBUFR (and of the second activation, when there is one).
Statement ==
    /\ Become(GetBUFRstep(Frame, df1, dtype, df2, outBUFR, args))
    /\ twin' = IF twinOn
               THEN GetBUFRstep(twin, df1, dtype, df2b, outBUFR, args)
               ELSE twin
    /\ UNCHANGED <<inputs, script>>

\* open() creates the file in its directory.
Open ==
    /\ pc = "open"
    /\ Statement
    /\ outDir' = outDir \cup {outBUFR}

Iterrows ==
    /\ pc = "iterrows"
    /\ Statement
    /\ UNCHANGED outDir

New ==
    /\ pc = "new"
    /\ Statement
    /\ UNCHANGED outDir

Timestamp ==
    /\ pc = "timestamp"
    /\ Statement
    /\ UNCHANGED outDir

Template ==
    /\ pc = "setTemplate"
    /\ Statement
    /\ UNCHANGED outDir

Station ==
    /\ pc = "setStation"
    /\ Statement
    /\ UNCHANGED outDir

AWSvariables ==
    /\ pc = "setAWSvariables"
    /\ Statement
    /\ UNCHANGED outDir

Pack ==
    /\ pc = "pack"
    /\ Statement
    /\ UNCHANGED outDir

Write ==
    /\ pc = "write"
    /\ Statement
    /\ UNCHANGED outDir

Except ==
    /\ pc = "except"
    /\ Statement
    /\ UNCHANGED outDir

Release ==
    /\ pc = "release"
    /\ Statement
    /\ UNCHANGED outDir

Close ==
    /\ pc = "close"
    /\ Statement
    /\ UNCHANGED outDir

Next ==
    \/ Open \/ Iterrows \/ New \/ Timestamp \/ Template \/ Station
    \/ AWSvariables \/ Pack \/ Write \/ Except \/ Release \/ Close

Spec == Init /\ [][Next]_vars

---------------------------------------------------------------------------
\* The main script (if __name__ == '__main__').

\* The script starts: glob.glob has listed the input directory, the lookup
\* table is read, ./BUFR_out/ exists and is empty.
InitMain ==
    /\ txtFiles \in Globs
    /\ df2 \in Lookups
    /\ lib \in {{}, {"pack"}}
    /\ df1 = <<>> /\ dtype = "float64" /\ args = Defaults /\ outBUFR = <<>>
    /\ pc = "idle" /\ i1 = 0 /\ r1 = NoRow /\ ibufr = NewHandle(0)
    /\ timestamp = NoTime /\ live = {} /\ fout = NoFile /\ log = <<>>
    /\ exc = "none"
    /\ mpc = "for" /\ fidx = 0 /\ fname = <<>> /\ bufrname = <<>> /\ outDir = {}
    /\ twinOn = FALSE /\ df2b = df2 /\ twin = NoTwin

\* for fname in txtFiles[0:1]:
For ==
    /\ mpc = "for"
    /\ fidx < Len(FirstSlice(txtFiles))
    /\ fname' = FirstSlice(txtFiles)[fidx + 1]
    /\ fidx' = fidx + 1
    /\ mpc' = "name"
    /\ UNCHANGED <<inputs, frame, txtFiles, bufrname, outDir, twin>>

\* bufrname = ...; print(f'Generating {bufrname} from {fname}')
Name ==
    /\ mpc = "name"
    /\ bufrname' = BufrName(fname)
    /\ mpc' = "getTXT"
    /\ UNCHANGED <<inputs, frame, txtFiles, fidx, fname, outDir, twin>>

\* df1 = getTXT(fname): the file's content is whatever table it holds.
GetTXT ==
    /\ mpc = "getTXT"
    /\ \E t \in Tables : \E dt \in {"float64", DtypeOf(t)} :
          df1' = t /\ dtype' = dt
    /\ mpc' = "call"
    /\ UNCHANGED <<df2, args, outBUFR, lib, twinOn, df2b, frame,
                   txtFiles, fidx, fname, bufrname, outDir, twin>>

\* getBUFR(df1, lookup, outFiles+bufrname): the call.
Call ==
    /\ mpc = "call"
    /\ outBUFR' = outFiles \o bufrname
    /\ args' = Defaults
    /\ Become(Entry)
    /\ mpc' = "getBUFR"
    /\ UNCHANGED <<df1, dtype, df2, lib, twinOn, df2b,
                   txtFiles, fidx, fname, bufrname, outDir, twin>>

\* getBUFR returned; print(f'Successfully exported bufr file to ...')
Return ==
    /\ mpc = "getBUFR"
    /\ pc = "done"
    /\ Become(Idle)
    /\ mpc' = "for"
    /\ UNCHANGED <<inputs, txtFiles, fidx, fname, bufrname, outDir, twin>>

\* An exception left getBUFR: the script ends with it.
Propagate ==
    /\ mpc = "getBUFR"
    /\ pc = "raised"
    /\ mpc' = "raised"
    /\ UNCHANGED <<inputs, frame, txtFiles, fidx, fname, bufrname, outDir, twin>>

\* The loop is over; print('Finished')
Finished ==
    /\ mpc = "for"
    /\ fidx >= Len(FirstSlice(txtFiles))
    /\ mpc' = "finished"
    /\ UNCHANGED <<inputs, frame, txtFiles, fidx, fname, bufrname, outDir, twin>>

NextMain ==
    \/ For \/ Name \/ GetTXT \/ Call \/ Return \/ Propagate \/ Finished
    \/ Open \/ Iterrows \/ New \/ Timestamp \/ Template \/ Station
    \/ AWSvariables \/ Pack \/ Write \/ Except \/ Release \/ Close

SpecMain == InitMain /\ [][NextMain]_vars

---------------------------------------------------------------------------
\* Two activations of getBUFR, statement by statement, on the same
\* observations, arguments, path and library but the lookup tables df2, df2b.

InitTwin ==
    /\ df1 \in Tables
    /\ dtype \in {"float64", DtypeOf(df1)}
    /\ df2 \in Lookups
    /\ df2b \in Lookups
    /\ args = Defaults
    /\ outBUFR = ApiPath
    /\ lib \in {{}, {"windSpeed"}, {"#11#timePeriod"}}
    /\ pc = "open" /\ i1 = 0 /\ r1 = NoRow /\ ibufr = NewHandle(0)
    /\ timestamp = NoTime /\ live = {} /\ fout = NoFile /\ log = <<>>
    /\ exc = "none"
    /\ mpc = "caller" /\ txtFiles = <<>> /\ fidx = 0 /\ fname = <<>>
    /\ bufrname = <<>> /\ outDir = {}
    /\ twinOn = TRUE /\ twin = Entry

SpecTwin == InitTwin /\ [][Next]_vars

---------------------------------------------------------------------------
\* Vocabulary of the properties.

\* The messages in the output file.  Handle n was created for row n, so
\* message m encodes row df1[m.id].
Messages == {fout.data[n] : n \in 1..Len(fout.data)}

RowOf(m) == df1[m.id]

\* Rows that getBUFR's except clause reported.
Skipped == Cardinality({n \in 1..Len(log) : log[n][1] = "message"})

Ended == pc \in {"done", "raised"}

\* The key that carries a measurement column.
FieldKey(col) ==
    CASE col = "Year" -> "year"
      [] col = "MonthOfYear" -> "month"
      [] col = "DayOfMonth" -> "day"
      [] col = "RelativeHumidity(%)" -> "relativeHumidity"
      [] col = "WindSpeed(m/s)" -> "windSpeed"
      [] col = "WindDirection(d)" -> "windDirection"
      [] col = "AirTemperature(C)" -> "airTemperature"
      [] col = "AirPressure(hPa)" -> "pressure"
      [] col = "CloudCover" -> "cloudCoverTotal"
      [] col = "ShortwaveRadiationDown_Cor(W/m2)" ->
            "#1#shortWaveRadiationIntegratedOverPeriodSpecified"
      [] col = "ShortwaveRadiationUp_Cor(W/m2)" ->
            "#2#shortWaveRadiationIntegratedOverPeriodSpecified"
      [] col = "LongwaveRadiationDown(W/m2)" ->
            "#1#longWaveRadiationIntegratedOverPeriodSpecified"
      [] col = "LongwaveRadiationUp(W/m2)" ->
            "#2#longWaveRadiationIntegratedOverPeriodSpecified"
      [] col = "LatitudeGPS(degN)" -> "latitude"
      [] col = "LongitudeGPS(degW)" -> "longitude"
      [] col = "ElevationGPS(m)" -> "heightOfStationGroundAboveMeanSeaLevel"
      [] col = "HeightSensorBoom(m)" ->
            "heightOfSensorAboveLocalGroundOrDeckOfMarinePlatform"
      [] OTHER -> "(none)"

\* The keys computed from a measurement column.
ComputedKeys(col) ==
    CASE col = "WindSpeed(m/s)" -> {"#11#timePeriod", "#2#timeSignificance"}
      [] col = "ShortwaveRadiationDown_Cor(W/m2)" -> {"#14#timePeriod"}
      [] col = "LongwaveRadiationDown(W/m2)" -> {"#15#timePeriod"}
      [] col = "ElevationGPS(m)" -> {"heightOfBarometerAboveMeanSeaLevel"}
      [] col = "HeightSensorBoom(m)" ->
            {"#2#heightOfSensorAboveLocalGroundOrDeckOfMarinePlatform",
             "#8#heightOfSensorAboveLocalGroundOrDeckOfMarinePlatform",
             "heightOfBarometerAboveMeanSeaLevel"}
      [] OTHER -> {}

\* The keys setAWSvariables may set.
AWSKeys == {FieldKey(c) : c \in Columns \ {"HourOfDay(UTC)"}}
           \cup UNION {ComputedKeys(c) : c \in Columns}
           \cup {"#1#timeSignificance"}

---------------------------------------------------------------------------
\* C1.  Sentinel values are never written: in every message of the output
\* file, a measurement column whose row value is the sentinel -999 has
\* neither its own key nor any key computed from it set.
C1_SentinelNeverWritten ==
    \A m \in Messages : \A col \in Columns :
        RowOf(m)[col] = Whole(nullvalue) =>
            /\ FieldKey(col) \notin KeysOf(m)
            /\ ComputedKeys(col) \cap KeysOf(m) = {}

\* C2, as claimed.  One message per observation row: when getBUFR has
\* returned, the output file holds as many messages as the table has rows,
\* whatever the library reported.
C2_OneMessagePerRow == pc = "done" => Len(fout.data) = Len(df1)

\* C2, amended.  When getBUFR has returned, the file holds at most one
\* message per row, in row order, and a row has no message exactly when the
\* except clause reported a library error for it: messages plus reported
\* rows make up the table.
C2_OneMessagePerEncodedRow ==
    pc = "done" =>
        /\ Len(fout.data) + Skipped = Len(df1)
        /\ \A n \in 1..Len(fout.data) : fout.data[n].id \in 1..Len(df1)
        /\ \A a, b \in 1..Len(fout.data) : a < b => fout.data[a].id < fout.data[b].id

\* C2: two rows, the library reported an error for one of them, the other
\* one's message is in the file.
C2_Witness == pc = "done" /\ Len(df1) = 2 /\ Len(fout.data) = 1 /\ Skipped = 1

\* C3.  Per-field error handling: when the library rejects nothing but data
\* fields of setAWSvariables, every row's message is still written, with the
\* rejected fields left out.
C3_PerFieldErrors ==
    (pc = "done" /\ lib # {} /\ lib \subseteq AWSKeys) =>
        /\ Len(fout.data) = Len(df1)
        /\ \A m \in Messages : KeysOf(m) \cap lib = {}

\* C4.  Unit conversion: in every message, a temperature that is not the
\* sentinel is set as temperature + 273.15 and a pressure that is not the
\* sentinel as pressure * 100 (unless the library rejected that key).
C4_UnitConversion ==
    \A m \in Messages :
        /\ (RowOf(m)["AirTemperature(C)"] # Whole(nullvalue) /\ ~Rejects("airTemperature"))
              => /\ IsSet(m, "airTemperature")
                 /\ Val(m, "airTemperature") = RowOf(m)["AirTemperature(C)"] + 27315
        /\ (RowOf(m)["AirPressure(hPa)"] # Whole(nullvalue) /\ ~Rejects("pressure"))
              => /\ IsSet(m, "pressure")
                 /\ Val(m, "pressure") = RowOf(m)["AirPressure(hPa)"] * 100

\* C5.  One output file per input file: when the script has finished, every
\* input file that glob matched has its output file in the output directory.
C5_OneOutputPerInput ==
    mpc = "finished" =>
        \A n \in 1..Len(txtFiles) : (outFiles \o BufrName(txtFiles[n])) \in outDir

\* C6.  getBUFR honours its header parameters: every message written has
\* the edition, master table number, master tables version and, under the
\* given key, the template that getBUFR was called with.
C6_HeaderParameters ==
    \A m \in Messages :
        /\ Val(m, "edition") = Whole(args.ed)
        /\ Val(m, "masterTableNumber") = Whole(args.master)
        /\ Val(m, "masterTablesVersionNumber") = Whole(args.vers)
        /\ IsSet(m, args.key)
        /\ Val(m, args.key) = Whole(args.template)

\* C7.  Skip-and-log keeps going: however the encoding of a row fails, the
\* rows after it are still processed, so that when getBUFR has ended the loop
\* has taken every row of the table.
C7_SkipAndContinue == Ended => i1 = Len(df1)

\* C8.  Handles are released and the file is closed: at most one handle is
\* live at any time, and when getBUFR has ended, on whatever path, no handle
\* is live and the output file is closed.
C8_HandlesReleased ==
    /\ Cardinality(live) <= 1
    /\ Ended => (live = {} /\ fout.closed)

\* The keys of a message in the order getBUFR sets them: header (1),
\* template (2), station (3), measurements (4), pack (5).
HeaderKeys ==
    LET hs == HeaderAssignments(NoTime, 0, 0, 0) IN {hs[n][1] : n \in 1..Len(hs)}

StationKeys == {"stationNumber", "blockNumber", "stationType",
                "instrumentationForWindMeasurement"}

Phase(key) ==
    CASE key \in HeaderKeys -> 1
      [] key = "unexpandedDescriptors" -> 2
      [] key \in StationKeys -> 3
      [] key \in AWSKeys -> 4
      [] key = "pack" -> 5
      [] OTHER -> 0

Ordered(h) ==
    /\ \A n \in 1..Len(h.keys) : Phase(h.keys[n][1]) > 0
    /\ \A n \in 1..(Len(h.keys) - 1) :
          /\ Phase(h.keys[n][1]) <= Phase(h.keys[n + 1][1])
          /\ h.keys[n][1] # "pack"
    /\ (\E n \in 1..Len(h.keys) : Phase(h.keys[n][1]) >= 3)
          => IsSet(h, "unexpandedDescriptors")

Packed(h) == Len(h.keys) > 0 /\ h.keys[Len(h.keys)][1] = "pack"

\* C9.  Per-message ordering: a handle is created before anything is set on
\* it and is live until its release; on every handle the header keys come
\* first, then the template, the station keys, the measurement keys and the
\* pack, nothing after the pack and no station or measurement key before
\* the template; a message is in the file only packed and only from the
\* write step of its row on; the messages are in the order of their rows;
\* the handle is released before the next row is taken.
C9_PerMessageOrdering ==
    /\ \A h \in Messages \cup {ibufr} : Ordered(h)
    /\ \A m \in Messages : Packed(m)
    /\ \A a, b \in 1..Len(fout.data) : a < b => fout.data[a].id < fout.data[b].id
    /\ \A m \in Messages :
          m.id = i1 => pc \in {"release", "iterrows", "close", "done"}
    /\ pc \in {"timestamp", "setTemplate", "setStation", "setAWSvariables",
               "pack", "write", "except", "release"}
          => (ibufr.id = i1 /\ live = {i1})
    /\ pc \in {"timestamp", "setTemplate"} => ~IsSet(ibufr, "unexpandedDescriptors")
    /\ pc \in {"iterrows", "close", "done"} => live = {}

\* C9: two rows encoded, both messages written, the second after the first.
C9_Witness ==
    /\ pc = "done"
    /\ Len(fout.data) = 2
    /\ fout.data[1].id = 1 /\ fout.data[2].id = 2
    /\ Len(fout.data[2].keys) > 40

\* C10.  The lookup table has no effect: two activations of getBUFR that
\* differ in the lookup table only are, statement by statement, in the same
\* state: the same assignments on the same handles, the same messages in the
\* file, the same lines printed; and a message holds no key but those of the
\* hard-coded field list.
C10_LookupHasNoEffect ==
    twinOn =>
        /\ twin = Frame
        /\ \A m \in Messages : \A k \in KeysOf(m) : Phase(k) > 0

\* C10: the two lookup tables differ, one has an entry without a standard
\* name and an entry for a column that is not encoded, and both activations
\* have written two messages.
C10_Witness ==
    /\ twinOn /\ pc = "done" /\ twin.pc = "done"
    /\ df2 # df2b
    /\ \E n \in 1..Len(df2b) : df2b[n].standard_name = ""
    /\ \E n \in 1..Len(df2b) : df2b[n].standard_name = "albedo"
    /\ Len(fout.data) = 2 /\ Len(twin.fout.data) = 2

============================================================================
